---- MODULE Spec2Model ----
(***************************************************************************)
(* A model of the KonText deployment script (src/deploy.py): the          *)
(* Configuration validation gate, the archive store under archiveDir,     *)
(* the forward deployment Deployer.run_all, the rollback                   *)
(* Deployer.from_archive and the command-line dispatch of __main__.        *)
(*                                                                         *)
(* Text is a sequence of pieces (strings); concatenation is \o.  A path    *)
(* is a record [abs, segs]: whether the spelling starts with '/' and its   *)
(* sequence of segments.  In Spec the four configured directories are      *)
(* distinct and not nested in each other; SpecAnyConf adds a document      *)
(* that passes validation with its archive root inside its appDir.         *)
(***************************************************************************)
EXTENDS Integers, Sequences, FiniteSets, TLC

VARIABLES
    pc,          \* position of the running invocation of __main__
    argAction,   \* args.action
    argId,       \* args.archive_id
    argMessage,  \* args.message: [given, text]
    argDate,     \* datetime.now() of the invocation
    confDoc,     \* the JSON document read from conf_path
    m,           \* result of find_matching_archive in __main__ / invalidate_archive
    archPath,    \* arch_path of the running deployment (the archive ID)
    idx,         \* position inside the loop of the running step
    err,         \* the exception that ended the action: [type, msg]
    exitStatus,  \* exit status of the last finished invocation
    stdout,      \* what the invocation printed so far
    appDir,      \* names of the entries of the live directory, with provenance content
    archives,    \* archive ID -> content of the archive directory
    work,        \* state of the working directory
    appConf,     \* names of the files in the application-config directory
    runs,        \* number of invocations started
    step,        \* the last step the invocation entered
    appDir0,     \* appDir when the running invocation started
    archives0,   \* archives when the running invocation started
    written,     \* archive ID -> what record_deployment_info was given
    cwd,         \* current directory of the process building a Configuration
    cfgData,     \* document handed to Configuration.__init__
    cfgOut,      \* outcome of Configuration.__init__
    fListing,    \* os.listdir(conf.archive_dir) handed to find_matching_archive
    fPrefix,     \* arch_id handed to find_matching_archive
    fOut,        \* outcome of find_matching_archive
    dData,       \* document a Configuration is built from and then read
    dSkip,       \* skip_remote_checks of that construction
    dOut,        \* outcome of that construction
    dFiles,      \* what the property kontext_conf_files returned
    dAcc,        \* the accessor read last and its outcome
    lQueryId,    \* logdb: the query_id handed to Handler.process_query
    lBulkSize,   \* logdb: Handler._bulk_size
    lScan,       \* logdb: the documents elasticsearch.helpers.scan yields, in order
    lPos,        \* logdb: position of the for loop of process_query in the scan
    lBulk,       \* logdb: the list bulk
    lCalls,      \* logdb: the calls of elasticsearch.helpers.bulk made so far
    lTotal,      \* logdb: total_proc
    lPc,         \* logdb: position of process_query
    lErr,        \* logdb: the exception that ended process_query
    rDstDir,     \* archivelog: conf.dst_dir
    rSrc,        \* archivelog: name -> entry of the source directory
    rSrc0,       \* archivelog: the source directory when process_dir started
    rDst,        \* archivelog: path -> content of the files moved to the archive
    rTodo,       \* archivelog: entries of os.listdir the loop has not reached yet
    rLog,        \* archivelog: the list log of process_dir
    rWorklog,    \* archivelog: lines of the worklog file
    rPc,         \* archivelog: position of process_dir
    rErr         \* archivelog: the exception that ended process_dir

mainVars == <<pc, argAction, argId, argMessage, argDate, confDoc, m, archPath, idx,
              err, exitStatus, stdout, appDir, archives, work, appConf, runs,
              step, appDir0, archives0, written>>
confVars == <<cwd, cfgData, cfgOut>>
findVars == <<fListing, fPrefix, fOut>>
docVars == <<dData, dSkip, dOut, dFiles, dAcc>>
logVars == <<lQueryId, lBulkSize, lScan, lPos, lBulk, lCalls, lTotal, lPc, lErr>>
rotVars == <<rDstDir, rSrc, rSrc0, rDst, rTodo, rLog, rWorklog, rPc, rErr>>
utilVars == <<logVars, rotVars>>
vars == <<mainVars, confVars, findVars, docVars, utilVars>>

----------------------------------------------------------------------------
(* Bounds *)

MaxRuns == 1      \* invocations of the script in one behaviour
MaxListing == 3   \* entries of the archive root in the lookup specification
MaxCustom == 2    \* entries of kontextConfCustom in the drawn documents
MaxScan == 3       \* documents a scan yields
MaxBulkSize == 2   \* Handler._bulk_size
MaxEntries == 3    \* entries of the source directory of the log rotation

----------------------------------------------------------------------------
(* Program constants *)

FILES == <<"cmpltmpl", "lib", "locale", "public", "scripts", "package.json", "worker.py">>
DEPLOY_MESSAGE_FILE == ".deploy_info"
INVALIDATION_FILE == ".invalid"
APP_DIR == "appDir"
WORKING_DIR == "workingDir"
ARCHIVE_DIR == "archiveDir"
APP_CONFIG_DIR == "appConfigDir"
GIT_URL == "gitUrl"
GIT_BRANCH == "gitBranch"
GIT_REMOTE == "gitRemote"
KONTEXT_CONF_ALIASES == "kontextConfAliases"
KONTEXT_CONF_CUSTOM == "kontextConfCustom"
KONTEXT_CONF_FILES == <<"beatconfig.py", "celeryconfig.py", "config.xml", "corpora.xml",
                        "gunicorn-conf.py", "main-menu.json", "tagsets.xml">>

----------------------------------------------------------------------------
(* Generic helpers *)

Range(s) == {s[i] : i \in 1..Len(s)}

NL == "\n"

NoError == [type |-> "none", msg |-> <<>>]

Raise(type, msg) == [type |-> type, msg |-> msg]

\* s.startswith(p) on sequences
StartsWith(s, p) == Len(p) <= Len(s) /\ SubSeq(s, 1, Len(p)) = p

\* p occurs in s as a contiguous block
Contains(s, p) == \E i \in 0..(Len(s) - Len(p)) : SubSeq(s, i + 1, i + Len(p)) = p

----------------------------------------------------------------------------
(* The filesystem the configured paths are resolved against *)

Path(abs, segs) == [abs |-> abs, segs |-> segs]

\* symbolic links: canonical path of the link -> canonical path of its target
Symlinks == ( <<"app">> :> <<"srv", "app">> ) @@ ( <<"srv", "sys">> :> <<"etc">> )

RECURSIVE ResolveLinks(_, _)
ResolveLinks(done, rest) ==
    IF rest = <<>> THEN done
    ELSE LET next == Append(done, Head(rest))
         IN  IF next \in DOMAIN Symlinks
             THEN ResolveLinks(Symlinks[next], Tail(rest))
             ELSE ResolveLinks(next, Tail(rest))

\* os.path.realpath: joins a relative path to the current directory, resolves links
realpath(path, dir) ==
    Path(TRUE, ResolveLinks(<<>>, IF path.abs THEN path.segs ELSE dir \o path.segs))

\* str.split('/') of the spelling of a path
SplitSlash(path) ==
    IF path.abs
    THEN IF path.segs = <<>> THEN <<"", "">> ELSE <<"">> \o path.segs
    ELSE path.segs

\* the current directory of the invocations of the model
MainCwd == <<"home">>

\* canonical paths of the directories that exist when an invocation of the model starts
\* for the first time
DirsAtStart == { <<>>, <<"etc">>, <<"home">>, <<"srv">>, <<"srv", "app">>, <<"srv", "work">>,
                 <<"srv", "arch">>, <<"srv", "conf">>, <<"srv", "deploy">>,
                 <<"srv", "deploy", "arch">> }

\* conf.archive_dir is a directory directly inside conf.app_dir
ArchiveInApp ==
    LET a == realpath(confDoc[APP_DIR], MainCwd).segs
        r == realpath(confDoc[ARCHIVE_DIR], MainCwd).segs
    IN  Len(r) = Len(a) + 1 /\ SubSeq(r, 1, Len(a)) = a

\* the name of the archive root as an entry of its parent directory
ArchiveEntry ==
    LET r == realpath(confDoc[ARCHIVE_DIR], MainCwd).segs IN r[Len(r)]

\* the archive root is still there: an entry of the live directory can be removed with it
archive_root_exists == ArchiveInApp => ArchiveEntry \in DOMAIN appDir

\* canonical paths of the directories that exist
Dirs == DirsAtStart \ (IF archive_root_exists THEN {}
                       ELSE {realpath(confDoc[ARCHIVE_DIR], MainCwd).segs})

isdir(path, dir) == realpath(path, dir).segs \in Dirs

----------------------------------------------------------------------------
(* Configuration *)

\* the test without the root itself: only a direct child of the root is refused
is_forbidden_dir_child_only(path, dir) ==
    LET tmp == SplitSlash(realpath(path, dir))
    IN  Len(tmp) = 2 /\ tmp[1] = "" /\ tmp[2] # ""

is_forbidden_dir(path, dir) ==
    LET tmp == SplitSlash(realpath(path, dir))
    IN  Len(tmp) = 2 /\ tmp[1] = ""

\* platform.system() is not 'Windows': s.startswith('/')
is_abs_path(s) == s.abs

ConfigKeys == <<APP_CONFIG_DIR, WORKING_DIR, ARCHIVE_DIR, APP_DIR>>

\* the body of the loop without the test that the directory exists
CheckKey_no_isdir(data, item, dir) ==
    IF item \notin DOMAIN data THEN Raise("KeyError", <<item>>)
    ELSE LET p == realpath(data[item], dir)
         IN  IF is_forbidden_dir(p, dir)
             THEN Raise("ConfigError", <<item, " cannot be set to forbidden value">>)
             ELSE IF ~is_abs_path(p)
             THEN Raise("ConfigError", <<item, " path must be absolute">>)
             ELSE NoError

\* the body of the loop of Configuration.__init__ for one key
CheckKey(data, item, dir) ==
    IF item \notin DOMAIN data THEN Raise("KeyError", <<item>>)
    ELSE LET p == realpath(data[item], dir)
         IN  IF is_forbidden_dir(p, dir)
             THEN Raise("ConfigError", <<item, " cannot be set to forbidden value">>)
             ELSE IF ~is_abs_path(p)
             THEN Raise("ConfigError", <<item, " path must be absolute">>)
             ELSE IF ~isdir(p, dir)
             THEN Raise("ConfigError", <<"Path does not exist: ", item>>)
             ELSE NoError

RECURSIVE CheckKeys(_, _, _)
CheckKeys(data, dir, i) ==
    IF i > Len(ConfigKeys) THEN NoError
    ELSE LET e == CheckKey(data, ConfigKeys[i], dir)
         IN  IF e.type # "none" THEN e ELSE CheckKeys(data, dir, i + 1)

\* Configuration._test_git_repo_url: urlOk is whether the URL answered with code 200
test_git_repo_url(data, urlOk) ==
    IF GIT_URL \notin DOMAIN data THEN Raise("KeyError", <<GIT_URL>>)
    ELSE IF ~urlOk THEN Raise("ConfigError", <<"Unable to validate git repo url">>)
    ELSE NoError

\* Configuration.__init__: the exception it raises, or NoError
ConfigurationInit(data, dir, skip_remote_checks, urlOk) ==
    LET e == CheckKeys(data, dir, 1)
    IN  IF e.type # "none" THEN e
        ELSE IF ~skip_remote_checks THEN test_git_repo_url(data, urlOk)
        ELSE NoError

kc_aliases(data) == IF KONTEXT_CONF_ALIASES \in DOMAIN data THEN data[KONTEXT_CONF_ALIASES]
                    ELSE << >>

kc_custom(data) == IF KONTEXT_CONF_CUSTOM \in DOMAIN data THEN data[KONTEXT_CONF_CUSTOM]
                   ELSE << >>

kontext_conf_files(data) ==
    LET conf_files == KONTEXT_CONF_FILES \o kc_custom(data)
        al == kc_aliases(data)
    IN  [i \in 1..Len(conf_files) |->
            IF conf_files[i] \in DOMAIN al THEN al[conf_files[i]] ELSE conf_files[i]]

----------------------------------------------------------------------------
(* Specification of the validation gate: Configuration(data) on drawn documents *)

GoodDirs == (APP_DIR :> Path(TRUE, <<"srv", "app">>)) @@
            (WORKING_DIR :> Path(TRUE, <<"srv", "work">>)) @@
            (ARCHIVE_DIR :> Path(TRUE, <<"srv", "arch">>)) @@
            (APP_CONFIG_DIR :> Path(TRUE, <<"srv", "conf">>))

GitKeys == (GIT_URL :> "https://example.org/kontext.git") @@
           (GIT_BRANCH :> "master") @@ (GIT_REMOTE :> "origin")

GoodDoc == GoodDirs @@ GitKeys

RelativePaths == { Path(FALSE, <<"app">>), Path(FALSE, <<"deployment", "app">>) }
MissingPaths == { Path(TRUE, <<"srv", "missing">>) }
RootChildPaths == { Path(TRUE, <<"etc">>) }
OtherPaths == { Path(TRUE, <<>>), Path(TRUE, <<"app">>), Path(TRUE, <<"srv", "sys">>) }

PathInputs(k) == {GoodDirs[k]} \cup RelativePaths \cup MissingPaths \cup RootChildPaths
                 \cup OtherPaths

DirKeys == {APP_DIR, WORKING_DIR, ARCHIVE_DIR, APP_CONFIG_DIR}

NotRun == [type |-> "notrun", msg |-> <<>>]

InitConfPart ==
    /\ cwd \in { <<"srv">>, <<"home">> }
    /\ \E a \in PathInputs(APP_DIR), w \in PathInputs(WORKING_DIR),
          r \in PathInputs(ARCHIVE_DIR), c \in PathInputs(APP_CONFIG_DIR) :
            cfgData = (APP_DIR :> a) @@ (WORKING_DIR :> w) @@ (ARCHIVE_DIR :> r) @@
                      (APP_CONFIG_DIR :> c) @@ GitKeys
    /\ cfgOut = NotRun

\* deploy.Configuration(conf, skip_remote_checks=True)
Construct ==
    /\ cfgOut = NotRun
    /\ cfgOut' = ConfigurationInit(cfgData, cwd, TRUE, TRUE)
    /\ UNCHANGED <<cwd, cfgData, mainVars, findVars, docVars, utilVars>>



----------------------------------------------------------------------------
(* Archive lookup *)

None == [some |-> FALSE, val |-> <<>>]

Some(x) == [some |-> TRUE, val |-> x]

RECURSIVE FindLoop(_, _, _, _)
FindLoop(avail_archives, arch_id, i, ans) ==
    IF i > Len(avail_archives) THEN [err |-> NoError, ans |-> ans]
    ELSE IF StartsWith(avail_archives[i], arch_id)
         THEN IF ~ans.some
              THEN FindLoop(avail_archives, arch_id, i + 1, Some(avail_archives[i]))
              ELSE [err |-> Raise("InputError", <<"Ambiguous archive ID search.">>),
                    ans |-> ans]
         ELSE FindLoop(avail_archives, arch_id, i + 1, ans)

\* a lookup that keeps the last matching entry
find_last_match(avail_archives, arch_id) ==
    LET hits == {i \in 1..Len(avail_archives) : StartsWith(avail_archives[i], arch_id)}
    IN  IF hits = {} THEN [err |-> NoError, ans |-> None]
        ELSE [err |-> NoError,
              ans |-> Some(avail_archives[CHOOSE i \in hits : \A j \in hits : i >= j])]

\* a lookup that takes the first matching entry and stops
find_first_match(avail_archives, arch_id) ==
    LET hits == {i \in 1..Len(avail_archives) : StartsWith(avail_archives[i], arch_id)}
    IN  IF hits = {} THEN [err |-> NoError, ans |-> None]
        ELSE [err |-> NoError,
              ans |-> Some(avail_archives[CHOOSE i \in hits : \A j \in hits : i <= j])]

\* find_matching_archive on the listing os.listdir(conf.archive_dir) returned
find_matching_archive(avail_archives, arch_id) == FindLoop(avail_archives, arch_id, 1, None)

\* the orders in which os.listdir can return the entries S
Listings(S) == { l \in [1..Cardinality(S) -> S] : Range(l) = S }

----------------------------------------------------------------------------
(* Specification of the lookup: find_matching_archive on drawn archive roots *)

Letters == {"a", "b"}

ShortNames == { <<x>> : x \in Letters } \cup { <<x, y>> : x, y \in Letters }

InitFindPart ==
    /\ \E S \in SUBSET ShortNames :
          /\ Cardinality(S) <= MaxListing
          /\ fListing \in Listings(S)
    /\ fPrefix \in ShortNames \cup { <<>> }
    /\ fOut = [err |-> NotRun, ans |-> None]

Lookup ==
    /\ fOut.err = NotRun
    /\ fOut' = find_matching_archive(fListing, fPrefix)
    /\ UNCHANGED <<fListing, fPrefix, mainVars, confVars, docVars, utilVars>>



----------------------------------------------------------------------------
(* Values of the deployment model *)

Put(f, k, v) == [x \in DOMAIN f \cup {k} |-> IF x = k THEN v ELSE f[x]]

Remove(f, S) == [x \in DOMAIN f \ S |-> f[x]]

EmptyDir == << >>

Digit(n) == <<"0", "1", "2", "3", "4", "5", "6", "7", "8", "9">>[n + 1]

Pad2(n) == <<Digit((n \div 10) % 10), Digit(n % 10)>>

Pad4(n) == <<Digit((n \div 1000) % 10), Digit((n \div 100) % 10)>> \o Pad2(n)

NoPad(n) == IF n < 10 THEN <<Digit(n)>> ELSE Pad2(n)

\* a format without zero padding, '%Y-%-m-%-d-%-H-%-M-%-S'
strftime_no_pad(d) ==
    Pad4(d.year) \o <<"-">> \o NoPad(d.month) \o <<"-">> \o NoPad(d.day) \o <<"-">>
    \o NoPad(d.hour) \o <<"-">> \o NoPad(d.minute) \o <<"-">> \o NoPad(d.second)

\* date.strftime(DEFAULT_DATETIME_FORMAT), '%Y-%m-%d-%H-%M-%S'
strftime(d) == Pad4(d.year) \o <<"-">> \o Pad2(d.month) \o <<"-">> \o Pad2(d.day) \o <<"-">>
               \o Pad2(d.hour) \o <<"-">> \o Pad2(d.minute) \o <<"-">> \o Pad2(d.second)

Dates == { [year |-> 2020, month |-> 1, day |-> 1, hour |-> 0, minute |-> 0, second |-> k] :
             k \in {0, 1} }

NEW_ID == <<"n", "e", "w">>

ArchiveIdInputs == {NEW_ID, <<"2", "0", "2", "0">>, <<"2", "0", "2", "1">>}
                   \cup { strftime(d) : d \in Dates }

NoMessage == [given |-> FALSE, text |-> <<>>]

MessageInputs == { NoMessage, [given |-> TRUE, text |-> <<>>],
                   [given |-> TRUE, text |-> <<"hotfix">>] }

\* argDate of an invocation that does not call datetime.now()
NoDate == [year |-> 0, month |-> 0, day |-> 0, hour |-> 0, minute |-> 0, second |-> 0]

\* Python truth value of args.message
Truthy(message) == message.given /\ message.text # <<>>

\* what 'git log -1 --oneline' can write to its standard output
GitLogOutputs == { <<"1a2b3c4 Fix concordance view", NL>>,
                   <<"9f8e7d6", " ", "Update locale", NL>> }

Whitespace == {" ", NL}

RECURSIVE LStrip(_)
LStrip(s) == IF s # <<>> /\ Head(s) \in Whitespace THEN LStrip(Tail(s)) ELSE s

RECURSIVE RStrip(_)
RStrip(s) == IF s # <<>> /\ s[Len(s)] \in Whitespace THEN RStrip(SubSeq(s, 1, Len(s) - 1))
             ELSE s

\* str.strip()
Strip(s) == RStrip(LStrip(s))

\* the first two characters of the names that can occur in the live directory
Chars2(name) ==
    CASE name = ".deploy_info" -> <<".", "d">>
      [] name = ".htaccess"    -> <<".", "h">>
      [] name = ".DS_Store"    -> <<".", "D">>
      [] name = "cmpltmpl"     -> <<"c", "m">>
      [] name = "conf"         -> <<"c", "o">>
      [] name = "lib"          -> <<"l", "i">>
      [] name = "locale"       -> <<"l", "o">>
      [] name = "public"       -> <<"p", "u">>
      [] name = "scripts"      -> <<"s", "c">>
      [] name = "package.json" -> <<"p", "a">>
      [] name = "worker.py"    -> <<"w", "o">>
      [] name = "index.html"   -> <<"i", "n">>
      [] name = "arch"         -> <<"a", "r">>

LowerCase == {"a", "b", "c", "d", "e", "f", "g", "h", "i", "j", "k", "l", "m",
              "n", "o", "p", "q", "r", "s", "t", "u", "v", "w", "x", "y", "z"}

\* the shell pattern <dir>/* : names that do not start with a dot
MatchesStar(name) == Chars2(name)[1] # "."

\* the shell pattern <dir>/.[a-z]* : a dot followed by a lower-case letter
MatchesDotLower(name) == Chars2(name)[1] = "." /\ Chars2(name)[2] \in LowerCase

\* documents the invocations of the model are started with
AliasDoc == GoodDoc @@ (KONTEXT_CONF_ALIASES :> ("tagsets.xml" :> "tag.xml")) @@
            (KONTEXT_CONF_CUSTOM :> <<"extra.json">>)

BadDoc == (APP_DIR :> Path(FALSE, <<"deployment", "app">>)) @@ GoodDoc

\* a document that passes validation with the archive root inside the live directory
NestedDoc == (APP_DIR :> Path(TRUE, <<"srv", "deploy">>)) @@
             (ARCHIVE_DIR :> Path(TRUE, <<"srv", "deploy", "arch">>)) @@ AliasDoc

\* a document whose alias table renames config.xml itself
ConfigAliasDoc == GoodDoc @@ (KONTEXT_CONF_ALIASES :> ("config.xml" :> "config.production.xml"))

MainDocs == {AliasDoc, BadDoc, NestedDoc, ConfigAliasDoc}

AllConf == Range(KONTEXT_CONF_FILES) \cup {"tag.xml", "extra.json", "config.production.xml"}

\* the content of a file of the application-config directory
ConfData(name) == <<"content of ", name>>

\* the config.xml an earlier deployment copied, before the file was edited
EarlierConfData == <<"earlier content of ", "config.xml">>

\* the files of the checkout; cmpltmpl is produced by the build
RepoFiles == Range(FILES) \ {"cmpltmpl"}


----------------------------------------------------------------------------
(* __main__: the end of an invocation *)

argVars == <<argAction, argId, argMessage, argDate>>

ErrorPrint(e) ==
    (IF e.type = "ConfigError" THEN <<"Configuration error: ">> ELSE <<"ERROR: ">>) \o e.msg

\* the status the interpreter exits with after the except clauses caught exception e
ExitCode(e) == 0

\* an exception reaches the except clauses of __main__: it is printed, the script ends
Abort(out, e) ==
    /\ err' = e
    /\ stdout' = out \o << ErrorPrint(e), <<NL>> >>
    /\ exitStatus' = ExitCode(e)
    /\ pc' = "exited"
    /\ idx' = 1
    /\ step' = step

\* the action returned: the script ends
Finish(out) ==
    /\ err' = NoError
    /\ stdout' = Append(out, <<NL>>)
    /\ exitStatus' = 0
    /\ pc' = "exited"
    /\ idx' = 1
    /\ step' = step

Continue(next, i) ==
    /\ pc' = next
    /\ idx' = i
    /\ step' = next
    /\ UNCHANGED <<err, exitStatus, stdout>>

\* run_all with the build started before the working config.xml is refreshed
run_all_build_first(s) ==
    CASE s = "update_from_repository" -> "build_project"
      [] s = "build_project" -> "update_working_conf"
      [] s = "update_working_conf" -> "create_archive"
      [] s = "create_archive" -> "copy_configuration"
      [] s = "copy_configuration" -> "record_deployment_info"
      [] s = "record_deployment_info" -> "copy_app_to_archive"
      [] s = "copy_app_to_archive" -> "remove_current_deployment"
      [] s = "remove_current_deployment" -> "deploy_new_version"
      [] s = "deploy_new_version" -> "done"

\* run_all with the live directory cleared before the build output is in the archive
run_all_clear_early(s) ==
    CASE s = "update_from_repository" -> "update_working_conf"
      [] s = "update_working_conf" -> "build_project"
      [] s = "build_project" -> "create_archive"
      [] s = "create_archive" -> "copy_configuration"
      [] s = "copy_configuration" -> "record_deployment_info"
      [] s = "record_deployment_info" -> "remove_current_deployment"
      [] s = "remove_current_deployment" -> "copy_app_to_archive"
      [] s = "copy_app_to_archive" -> "deploy_new_version"
      [] s = "deploy_new_version" -> "done"

\* Deployer.run_all: the step that follows a step
run_all(s) ==
    CASE s = "update_from_repository" -> "update_working_conf"
      [] s = "update_working_conf" -> "build_project"
      [] s = "build_project" -> "create_archive"
      [] s = "create_archive" -> "copy_configuration"
      [] s = "copy_configuration" -> "record_deployment_info"
      [] s = "record_deployment_info" -> "copy_app_to_archive"
      [] s = "copy_app_to_archive" -> "remove_current_deployment"
      [] s = "remove_current_deployment" -> "deploy_new_version"
      [] s = "deploy_new_version" -> "done"

\* Deployer.from_archive: the step that follows a step
from_archive(s) ==
    CASE s = "remove_current_deployment" -> "deploy_new_version"
      [] s = "deploy_new_version" -> "show_deployment_info"
      [] s = "show_deployment_info" -> "done"

\* the running step returned: the next step of the running method starts, or the
\* action is over
StepDone(out) ==
    LET next == IF argId = NEW_ID THEN run_all(pc) ELSE from_archive(pc)
    IN  IF next = "done" THEN Finish(out)
        ELSE /\ pc' = next
             /\ idx' = 1
             /\ step' = next
             /\ stdout' = out
             /\ UNCHANGED <<err, exitStatus>>

\* Deployer.shell_cmd: the command does its work and exits with zero (only when it can
\* succeed), or it exits non-zero and ShellCommandError is raised
shell_cmd(args, possible, Effect, Then) ==
    \/ /\ possible
       /\ Effect
       /\ Then
    \/ /\ Abort(stdout, Raise("ShellCommandError", <<"Failed to process action: ", args>>))
       /\ UNCHANGED <<appDir, archives, work, written>>

----------------------------------------------------------------------------
(* __main__: start of an invocation, configuration and dispatch *)

StartAsRoot ==
    /\ pc \in {"idle", "exited"}
    /\ runs < MaxRuns
    /\ runs' = runs + 1
    /\ pc' = "exited"
    /\ exitStatus' = 1
    /\ stdout' = << <<"Please do not run the script as root">> >>
    /\ err' = NoError
    /\ idx' = 1
    /\ m' = None
    /\ archPath' = <<>>
    /\ step' = "getuid"
    /\ appDir0' = appDir
    /\ archives0' = archives
    /\ UNCHANGED <<confVars, findVars, docVars, utilVars, argVars, confDoc, appDir, archives, work, appConf,
                   written>>

\* the command lines of the model; the message is only drawn where the action reads it
\* and the archive identifier keeps its default where the action ignores it
Invocations ==
    { [action |-> "deploy", id |-> NEW_ID, message |-> msg] : msg \in MessageInputs }
    \cup { [action |-> "deploy", id |-> id, message |-> NoMessage] :
             id \in ArchiveIdInputs \ {NEW_ID} }
    \cup { [action |-> "invalidate", id |-> id, message |-> msg] :
             id \in ArchiveIdInputs, msg \in MessageInputs }
    \cup { [action |-> act, id |-> NEW_ID, message |-> NoMessage] : act \in {"list", "status"} }

Start ==
    /\ pc \in {"idle", "exited"}
    /\ runs < MaxRuns
    /\ runs' = runs + 1
    /\ m' = None
    /\ archPath' = <<>>
    /\ appDir0' = appDir
    /\ archives0' = archives
    /\ idx' = 1
    /\ \E inv \in Invocations, urlOk \in BOOLEAN :
          /\ argAction' = inv.action
          /\ argId' = inv.id
          /\ argMessage' = inv.message
          /\ LET e == ConfigurationInit(confDoc, MainCwd, FALSE, urlOk)
                 run(next, out) == /\ pc' = next
                                   /\ step' = next
                                   /\ stdout' = out
                                   /\ err' = NoError
                                   /\ exitStatus' = -1
                 fail(x) == /\ err' = x
                            /\ stdout' = << ErrorPrint(x), <<NL>> >>
                            /\ exitStatus' = ExitCode(x)
                            /\ pc' = "exited"
             IN  IF e.type # "none"
                 THEN fail(e) /\ step' = "Configuration" /\ argDate' = NoDate
                 ELSE IF inv.action = "deploy"
                 THEN IF inv.id = NEW_ID
                      THEN /\ run("update_from_repository",
                                  << <<"installing latest version from ",
                                       confDoc[GIT_BRANCH]>> >>)
                           /\ argDate' \in Dates
                      ELSE /\ run("deploy_from_archive", <<>>)
                           /\ argDate' = NoDate
                 ELSE IF inv.action \in {"list", "invalidate"}
                 THEN /\ run(IF inv.action = "list" THEN "list_archive"
                             ELSE "invalidate_archive", <<>>)
                      /\ argDate' = NoDate
                 ELSE /\ fail(Raise("Exception", <<"Unknown action ", inv.action>>))
                      /\ step' = "dispatch"
                      /\ argDate' = NoDate
    /\ UNCHANGED <<confVars, findVars, docVars, utilVars, confDoc, appDir, archives, work, appConf,
                   written>>

----------------------------------------------------------------------------
(* list, invalidate and the resolution of an archive to deploy from *)

\* os.path.join(conf.archive_dir, None)
JoinNoneError == Raise("AttributeError", <<"'NoneType' object has no attribute 'startswith'">>)

\* a validity test that does not look for the invalidation marker
test_archive_validity_no_marker(archs, archive_id) ==
    IF ~archive_id.some THEN JoinNoneError ELSE NoError

\* _test_archive_validity: the exception it raises, or NoError
test_archive_validity(archs, archive_id) ==
    IF ~archive_id.some THEN JoinNoneError
    ELSE IF archive_id.val \in DOMAIN archs
            /\ INVALIDATION_FILE \in DOMAIN archs[archive_id.val]
    THEN Raise("InvalidatedArchiveException",
               <<"Archive marked as invalid. Reason: ">>
               \o archs[archive_id.val][INVALIDATION_FILE])
    ELSE NoError

\* invalidate_archive: the exception it raises (or NoError) and the archive root it leaves
invalidate_archive(archs, listing, archive_id, message) ==
    LET r == find_matching_archive(listing, archive_id)
    IN  IF r.err.type # "none" THEN [err |-> r.err, archives |-> archs]
        ELSE IF ~r.ans.some THEN [err |-> JoinNoneError, archives |-> archs]
        ELSE IF ~message.given
        THEN [err |-> Raise("TypeError", <<"unsupported operand type(s) for +">>),
              archives |-> [archs EXCEPT ![r.ans.val] = Put(@, INVALIDATION_FILE, <<>>)]]
        ELSE [err |-> NoError,
              archives |-> [archs EXCEPT ![r.ans.val] =
                               Put(@, INVALIDATION_FILE, message.text \o <<NL>>)]]

ListArchive ==
    /\ pc = "list_archive"
    /\ \E l \in Listings(DOMAIN archives) :
          Finish(<< <<"archived deployments:">>, <<"/srv/arch">> >>
                 \o [i \in 1..Len(l) |-> <<"\t">> \o l[i]])
    /\ UNCHANGED <<confVars, findVars, docVars, utilVars, argVars, confDoc, m, archPath, appDir, archives,
                   work, appConf, runs,
                   appDir0, archives0, written>>

InvalidateArchive ==
    /\ pc = "invalidate_archive"
    /\ \E l \in Listings(DOMAIN archives) :
          LET r == invalidate_archive(archives, l, argId, argMessage)
          IN  /\ archives' = r.archives
              /\ IF r.err.type # "none" THEN Abort(stdout, r.err) ELSE Finish(stdout)
    /\ UNCHANGED <<confVars, findVars, docVars, utilVars, argVars, confDoc, m, archPath, appDir, work,
                   appConf, runs,
                   appDir0, archives0, written>>

\* __main__, deploy from an archive: find_matching_archive, _test_archive_validity
DeployFromArchive ==
    /\ pc = "deploy_from_archive"
    /\ \E l \in Listings(DOMAIN archives) :
          LET r == find_matching_archive(l, argId)
              v == IF r.err.type # "none" THEN r.err
                   ELSE test_archive_validity(archives, r.ans)
          IN  IF v.type # "none"
              THEN /\ Abort(stdout, v)
                   /\ m' = IF r.err.type # "none" THEN None ELSE r.ans
                   /\ UNCHANGED archPath
              ELSE IF r.ans.some
              THEN /\ m' = r.ans
                   /\ archPath' = r.ans.val
                   /\ pc' = "remove_current_deployment"
                   /\ step' = "remove_current_deployment"
                   /\ idx' = 1
                   /\ stdout' = Append(stdout, <<"installing from archive: ">> \o r.ans.val)
                   /\ UNCHANGED <<err, exitStatus>>
              ELSE \* InputError(...) is built and dropped
                   /\ m' = r.ans
                   /\ Finish(stdout)
                   /\ UNCHANGED archPath
    /\ UNCHANGED <<confVars, findVars, docVars, utilVars, argVars, confDoc, appDir, archives, work, appConf,
                   runs,
                   appDir0, archives0, written>>


----------------------------------------------------------------------------
(* Deployer: the steps of run_all and from_archive, one action per shell command *)

deployFrame == <<argVars, confDoc, m, appConf, runs, appDir0, archives0, confVars,
                findVars, docVars, utilVars>>

\* update_from_repository: git clone into a working directory without .git
GitClone ==
    /\ pc = "update_from_repository"
    /\ ~work.git
    /\ shell_cmd("git clone", TRUE,
                 /\ work' = [work EXCEPT !.git = TRUE, !.files = @ \cup RepoFiles]
                 /\ UNCHANGED <<appDir, archives, written>>,
                 StepDone(stdout))
    /\ UNCHANGED <<deployFrame, archPath>>

\* update_from_repository: git checkout, git fetch, git merge
GitUpdate ==
    /\ pc = "update_from_repository"
    /\ work.git
    /\ shell_cmd(<<"git checkout", "git fetch", "git merge">>[idx], TRUE,
                 UNCHANGED <<appDir, archives, work, written>>,
                 IF idx < 3 THEN Continue("update_from_repository", idx + 1)
                 ELSE StepDone(stdout))
    /\ UNCHANGED <<deployFrame, archPath>>

\* cp that keeps a file the destination already has (cp -n)
cp_no_clobber(dst, name, data) == IF name \in DOMAIN dst THEN dst ELSE Put(dst, name, data)

\* cp -p of a file into an existing directory: the entry is created or overwritten
cp(dst, name, data) == Put(dst, name, data)

\* the checkout has a directory conf, as the repository of the application does
UpdateWorkingConf ==
    /\ pc = "update_working_conf"
    /\ shell_cmd("cp -p config.xml", "config.xml" \in appConf,
                 /\ work' = [work EXCEPT !.conf = cp(@, "config.xml", ConfData("config.xml"))]
                 /\ UNCHANGED <<appDir, archives, written>>,
                 StepDone(stdout))
    /\ UNCHANGED <<deployFrame, archPath>>

\* build_project: npm install when node_modules is missing
NpmInstall ==
    /\ pc = "build_project"
    /\ idx = 1
    /\ ~work.node_modules
    /\ shell_cmd("npm install", TRUE,
                 /\ work' = [work EXCEPT !.node_modules = TRUE]
                 /\ UNCHANGED <<appDir, archives, written>>,
                 Continue("build_project", 2))
    /\ UNCHANGED <<deployFrame, archPath>>

\* build_project: grunt production
GruntProduction ==
    /\ pc = "build_project"
    /\ idx = 2 \/ work.node_modules
    /\ shell_cmd("grunt production", TRUE,
                 /\ work' = [work EXCEPT !.files = @ \cup {"cmpltmpl"}]
                 /\ UNCHANGED <<appDir, archives, written>>,
                 StepDone(stdout))
    /\ UNCHANGED <<deployFrame, archPath>>

\* a makedirs that accepts a directory that exists
makedirs_exist_ok(exists) == NoError

\* os.makedirs(path) of one directory level: the exception it raises, or NoError
makedirs(exists) == IF exists THEN Raise("OSError", <<"[Errno 17] File exists">>) ELSE NoError

\* a create_archive that replaces the directory of an archive that exists
create_archive_replace(archs, date) ==
    [err |-> NoError,
     archives |-> Put(archs, strftime(date), "conf" :> {}),
     path |-> strftime(date)]

\* Deployer.create_archive: the exception, the archive root it leaves, the path returned
create_archive(archs, date) ==
    LET arch_path == strftime(date)
        made == IF arch_path \notin DOMAIN archs THEN Put(archs, arch_path, EmptyDir)
                ELSE archs
        e == makedirs("conf" \in DOMAIN made[arch_path])
    IN  IF e.type # "none" THEN [err |-> e, archives |-> made, path |-> arch_path]
        ELSE [err |-> NoError,
              archives |-> [made EXCEPT ![arch_path] = Put(@, "conf", {})],
              path |-> arch_path]

CreateArchive ==
    /\ pc = "create_archive"
    /\ LET r == create_archive(archives, argDate)
       IN  /\ archives' = r.archives
           /\ IF r.err.type # "none"
              THEN Abort(stdout, r.err) /\ UNCHANGED archPath
              ELSE archPath' = r.path /\ StepDone(stdout)
    /\ UNCHANGED <<deployFrame, appDir, work, written>>

\* copy_configuration: cp -p of one configured file into <archive>/conf
CopyConfiguration ==
    /\ pc = "copy_configuration"
    /\ LET files == kontext_conf_files(confDoc)
           item == files[idx]
       IN  shell_cmd("cp -p conf", item \in appConf,
                     /\ archives' = [archives EXCEPT ![archPath] =
                                        Put(@, "conf", @["conf"] \cup {item})]
                     /\ UNCHANGED <<appDir, work, written>>,
                     IF idx < Len(files) THEN Continue("copy_configuration", idx + 1)
                     ELSE StepDone(stdout))
    /\ UNCHANGED <<deployFrame, archPath>>

\* a provenance record without the blank line after the message
deployment_info_no_blank_line(message, log_output) ==
    (IF Truthy(message) THEN message.text \o <<NL>> ELSE <<>>) \o Strip(log_output) \o <<NL>>

\* the content record_deployment_info writes for a message and the output of git log
deployment_info(message, log_output) ==
    LET commit_info == Strip(log_output)
    IN  (IF Truthy(message) THEN message.text \o <<NL, NL>> ELSE <<>>)
        \o commit_info \o <<NL>>

\* what is remembered of a call of record_deployment_info
Written(message, out) ==
    [message |-> message, log |-> out, content |-> deployment_info(message, out)]

RecordDeploymentInfo ==
    /\ pc = "record_deployment_info"
    /\ \E out \in GitLogOutputs :
          shell_cmd("git log", TRUE,
                    /\ archives' = [archives EXCEPT ![archPath] =
                                       Put(@, DEPLOY_MESSAGE_FILE,
                                           deployment_info(argMessage, out))]
                    /\ written' = Put(written, archPath, Written(argMessage, out))
                    /\ UNCHANGED <<appDir, work>>,
                    StepDone(stdout))
    /\ UNCHANGED <<deployFrame, archPath>>

\* copy_app_to_archive: cp -r -p of one entry of FILES into the archive
CopyAppToArchive ==
    /\ pc = "copy_app_to_archive"
    /\ shell_cmd("cp -r -p to archive", FILES[idx] \in work.files,
                 /\ archives' = [archives EXCEPT ![archPath] = Put(@, FILES[idx], <<>>)]
                 /\ UNCHANGED <<appDir, work, written>>,
                 IF idx < Len(FILES) THEN Continue("copy_app_to_archive", idx + 1)
                 ELSE StepDone(stdout))
    /\ UNCHANGED <<deployFrame, archPath>>

\* the entries the two rm -rf commands of remove_current_deployment remove
RemovedBy(i, name) == IF i = 1 THEN MatchesStar(name) ELSE MatchesDotLower(name)

RemoveCurrentDeployment ==
    /\ pc = "remove_current_deployment"
    /\ shell_cmd("rm -rf", TRUE,
                 /\ appDir' = Remove(appDir, {n \in DOMAIN appDir : RemovedBy(idx, n)})
                 /\ archives' = IF ArchiveInApp /\ ArchiveEntry \in DOMAIN appDir
                                   /\ RemovedBy(idx, ArchiveEntry)
                                THEN << >> ELSE archives
                 /\ UNCHANGED <<work, written>>,
                 IF idx < 2 THEN Continue("remove_current_deployment", idx + 1)
                 ELSE StepDone(stdout))
    /\ UNCHANGED <<deployFrame, archPath>>

InstallItems == FILES \o <<DEPLOY_MESSAGE_FILE, "conf">>

\* deploy_new_version: cp -r -p of one entry of the archive into the live directory
DeployNewVersion ==
    /\ pc = "deploy_new_version"
    /\ LET item == InstallItems[idx]
       IN  shell_cmd("cp -r -p to app",
                     archPath \in DOMAIN archives /\ item \in DOMAIN archives[archPath],
                     /\ appDir' = Put(appDir, item, archives[archPath][item])
                     /\ UNCHANGED <<archives, work, written>>,
                     IF idx < Len(InstallItems) THEN Continue("deploy_new_version", idx + 1)
                     ELSE StepDone(stdout))
    /\ UNCHANGED <<deployFrame, archPath>>

\* from_archive: the provenance file of the archive is read and printed
ShowDeploymentInfo ==
    /\ pc = "show_deployment_info"
    /\ StepDone(Append(stdout, <<NL, "Deployment information:", NL>>
                               \o archives[archPath][DEPLOY_MESSAGE_FILE]))
    /\ UNCHANGED <<deployFrame, archPath, appDir, archives, work, written>>

----------------------------------------------------------------------------
(* Specification of the configuration object: Configuration(data) on drawn documents, *)
(* then its properties are read                                                        *)

RequiredKeys == {APP_DIR, WORKING_DIR, ARCHIVE_DIR, APP_CONFIG_DIR, GIT_URL, GIT_BRANCH,
                 GIT_REMOTE}

\* the values of kontextConfAliases in the drawn documents
AliasInputs == { << >>,
                 "tagsets.xml" :> "tag.xml",
                 "extra.json" :> "extra-prod.json",
                 ("tagsets.xml" :> "tag.xml") @@ ("extra.json" :> "extra-prod.json"),
                 "config.xml" :> "tagsets.xml" }

CustomNames == {"extra.json", "tagsets.xml", "tag.xml"}

\* the values of kontextConfCustom in the drawn documents
CustomInputs == UNION { [1..n -> CustomNames] : n \in 0..MaxCustom }

Without(f, k) == [x \in DOMAIN f \ {k} |-> f[x]]

DocInputs ==
    LET optional == {GoodDoc}
                    \cup { GoodDoc @@ (KONTEXT_CONF_ALIASES :> al) : al \in AliasInputs }
        full == optional \cup { d @@ (KONTEXT_CONF_CUSTOM :> cu) :
                                  d \in optional, cu \in CustomInputs }
    IN  full \cup { Without(d, k) : d \in full, k \in RequiredKeys }

NotRead == <<"not read">>

NoAccess == [key |-> "", out |-> NotRun]

InitDocPart ==
    /\ dData \in DocInputs
    /\ dSkip \in BOOLEAN
    /\ dOut = NotRun
    /\ dFiles = NotRead
    /\ dAcc = NoAccess

ParkedDoc ==
    /\ dData = GoodDoc
    /\ dSkip = FALSE
    /\ dOut = NotRun
    /\ dFiles = NotRead
    /\ dAcc = NoAccess

\* deploy.Configuration(data, skip_remote_checks)
ConstructDoc ==
    /\ dOut = NotRun
    /\ \E urlOk \in BOOLEAN : dOut' = ConfigurationInit(dData, MainCwd, dSkip, urlOk)
    /\ UNCHANGED <<dData, dSkip, dFiles, dAcc, mainVars, confVars, findVars, utilVars>>

\* conf.kontext_conf_files of a constructed configuration
ReadConfFiles ==
    /\ dOut = NoError
    /\ dFiles = NotRead
    /\ dFiles' = kontext_conf_files(dData)
    /\ UNCHANGED <<dData, dSkip, dOut, dAcc, mainVars, confVars, findVars, utilVars>>

\* self._data[key] of the properties app_dir .. git_remote: the exception, or NoError
accessor(data, key) == IF key \notin DOMAIN data THEN Raise("KeyError", <<key>>) ELSE NoError

\* one of the properties app_dir .. git_remote of a constructed configuration is read
ReadAccessor ==
    /\ dOut = NoError
    /\ dAcc = NoAccess
    /\ \E key \in RequiredKeys : dAcc' = [key |-> key, out |-> accessor(dData, key)]
    /\ UNCHANGED <<dData, dSkip, dOut, dFiles, mainVars, confVars, findVars, utilVars>>

----------------------------------------------------------------------------
(* src/logdb.py: Handler.process_query on a drawn scan *)

\* conf['index'] and the index a copy writes to
Index == "logs"

TargetIndex == "logs-v2"

DocType == "kontext"

\* conf['queries']: of an entry the code reads 'type' and 'op', and of its op the key
\* 'target-index'; the key 'name' says which operation the entry specifies
Queries ==
    ("copy-all" :> [type |-> DocType,
                    op |-> ("name" :> "copy") @@ ("target-index" :> TargetIndex)]) @@
    ("drop-old" :> [type |-> DocType, op |-> ("name" :> "delete")]) @@
    ("drop-moved" :> [type |-> DocType,
                      op |-> ("name" :> "delete") @@ ("target-index" :> TargetIndex)])

QueryIds == DOMAIN Queries \cup {"unknown"}

IPv4 == <<"10", ".", "0", ".", "0", ".", "7">>

IPv6 == <<"2001", ":", "db8", ":", ":", "7">>

\* the _source of a scanned document: without ipAddress, with null, IPv4 or IPv6
SourceInputs == { << >>, "ipAddress" :> None, "ipAddress" :> Some(IPv4),
                  "ipAddress" :> Some(IPv6) }

\* a hit of the scan
Hit(id, source) == [_index |-> Index, _type |-> DocType, _id |-> id, _source |-> source]

ScanInputs ==
    UNION { { [i \in 1..n |-> Hit(i, f[i])] : f \in [1..n -> SourceInputs] } : n \in 0..MaxScan }

bulk_delete(items) == [i \in 1..Len(items) |-> ("_op_type" :> "delete") @@ items[i]]

bulk_insert(items) == [i \in 1..Len(items) |-> ("_op_type" :> "index") @@ items[i]]

filter_usupported_ip_addr(item) ==
    LET ip_addr == IF "ipAddress" \in DOMAIN item._source THEN item._source["ipAddress"]
                   ELSE Some(<<>>)
    IN  IF ip_addr.some /\ Contains(ip_addr.val, <<":">>)
        THEN [item EXCEPT !._source = ("ipAddress" :> None) @@ @]
        ELSE item

\* fn = self.bulk_insert: the only assignment to fn in process_query
fn(q_conf) == "bulk_insert"

\* the body of the for loop up to bulk.append: the exception raised, or the item appended
BulkItem(q_conf, item) ==
    IF fn(q_conf) = "bulk_insert"
    THEN IF "target-index" \notin DOMAIN q_conf.op
         THEN [err |-> Raise("KeyError", <<"target-index">>), item |-> item]
         ELSE [err |-> NoError,
               item |-> filter_usupported_ip_addr(
                            [item EXCEPT !._index = q_conf.op["target-index"]])]
    ELSE [err |-> NoError,
          item |-> [_index |-> Index, _type |-> q_conf.type, _id |-> item._id]]

\* the test before the call after the loop, dropped
flush_rest_always(bulk) == TRUE

\* if len(bulk) > 0
flush_rest(bulk) == Len(bulk) > 0

\* status = fn(bulk); total_proc += status[0]: elasticsearch.helpers.bulk takes the
\* actions and returns (number of successes, errors) or raises; bulk_delete returns None
CallFn(q_conf, bulk, next) ==
    \E ok \in BOOLEAN :
        /\ lCalls' = Append(lCalls,
                            [fn |-> fn(q_conf),
                             items |-> IF fn(q_conf) = "bulk_insert" THEN bulk_insert(bulk)
                                       ELSE bulk_delete(bulk)])
        /\ IF ~ok
           THEN /\ lErr' = Raise("BulkIndexError", <<"document(s) failed to index">>)
                /\ lPc' = "failed"
                /\ UNCHANGED lTotal
                /\ lBulk' = bulk
           ELSE IF fn(q_conf) # "bulk_insert"
           THEN /\ lErr' = Raise("TypeError", <<"'NoneType' object has no attribute ",
                                                "'__getitem__'">>)
                /\ lPc' = "failed"
                /\ UNCHANGED lTotal
                /\ lBulk' = bulk
           ELSE /\ lTotal' = lTotal + Len(bulk)
                /\ lBulk' = <<>>
                /\ lPc' = next
                /\ UNCHANGED lErr

InitLogPart ==
    /\ lQueryId \in QueryIds
    /\ lBulkSize \in 1..MaxBulkSize
    /\ lScan \in ScanInputs
    /\ lPos = 1
    /\ lBulk = <<>>
    /\ lCalls = <<>>
    /\ lTotal = 0
    /\ lPc = "start"
    /\ lErr = NoError

ParkedLog ==
    /\ lQueryId = "copy-all"
    /\ lBulkSize = 1
    /\ lScan = <<>>
    /\ lPos = 1
    /\ lBulk = <<>>
    /\ lCalls = <<>>
    /\ lTotal = 0
    /\ lPc = "start"
    /\ lErr = NoError


logFrame == <<mainVars, confVars, findVars, docVars, rotVars>>

\* process_query up to the for loop: q_conf = self._queries[query_id], the scan
ProcessQueryStart ==
    /\ lPc = "start"
    /\ IF lQueryId \in DOMAIN Queries
       THEN lPc' = "loop" /\ UNCHANGED lErr
       ELSE lPc' = "failed" /\ lErr' = Raise("KeyError", <<lQueryId>>)
    /\ UNCHANGED <<lQueryId, lBulkSize, lScan, lPos, lBulk, lCalls, lTotal, logFrame>>

\* one pass of the for loop
ProcessItem ==
    /\ lPc = "loop"
    /\ lPos <= Len(lScan)
    /\ LET q_conf == Queries[lQueryId]
           r == BulkItem(q_conf, lScan[lPos])
           bulk == Append(lBulk, r.item)
       IN  IF r.err.type # "none"
           THEN /\ lPc' = "failed"
                /\ lErr' = r.err
                /\ UNCHANGED <<lPos, lBulk, lCalls, lTotal>>
           ELSE /\ lPos' = lPos + 1
                /\ IF Len(bulk) = lBulkSize
                   THEN CallFn(q_conf, bulk, "loop")
                   ELSE /\ lBulk' = bulk
                        /\ UNCHANGED <<lCalls, lTotal, lPc, lErr>>
    /\ UNCHANGED <<lQueryId, lBulkSize, lScan, logFrame>>

\* the scan is exhausted: the rest of bulk is sent, process_query returns
FinishQuery ==
    /\ lPc = "loop"
    /\ lPos > Len(lScan)
    /\ IF flush_rest(lBulk)
       THEN CallFn(Queries[lQueryId], lBulk, "done")
       ELSE lPc' = "done" /\ UNCHANGED <<lBulk, lCalls, lTotal, lErr>>
    /\ UNCHANGED <<lQueryId, lBulkSize, lScan, lPos, logFrame>>

----------------------------------------------------------------------------
(* src/archivelog.py: Archiver.process_dir on a drawn source directory *)

\* conf.file_name and conf.rotation_pattern of the docstring, as pieces
file_name == <<"application", ".", "log">>

rotation_pattern == <<".", "\\d+">>

\* Archiver.current_timestamp() and conf.move_if_older_than_secs
Now == 100

move_if_older_than_secs == 10

SrcDir == Path(TRUE, <<"var", "log", "kontext">>)

\* conf.dst_dir: absolute, or relative to the current directory
DstDirs == { Path(TRUE, <<"mnt", "archive">>), Path(FALSE, <<"archive">>) }

\* os.path.join of two paths
join(a, b) == IF b.abs THEN b ELSE Path(a.abs, a.segs \o b.segs)

\* the pieces that are one character long
OneChar == {".", "_", "1", "2", "3", "4"}

Digits == {"1", "2", "3", "4"}

\* one piece of a regular expression against one piece of a name
MatchPiece(p, x) ==
    IF p = "." THEN x \in OneChar
    ELSE IF p = "\\d+" THEN x \in Digits
    ELSE x = p

\* the pieces of pat match the first pieces of name
MatchPrefix(pat, name) ==
    /\ Len(name) >= Len(pat)
    /\ \A i \in 1..Len(pat) : MatchPiece(pat[i], name[i])

\* re.match('%s(%s)?' % (file_name, rotation_pattern), name): file_name is used as a
\* regular expression, the group is optional and nothing anchors the end of the name
is_log_file(name) ==
    /\ MatchPrefix(file_name, name)
    /\ \/ MatchPrefix(rotation_pattern, SubSeq(name, Len(file_name) + 1, Len(name)))
       \/ TRUE

\* an entry of the source directory
Entry(name, kind, mtime) == [name |-> name, kind |-> kind, mtime |-> mtime,
                             data |-> <<"lines of ">> \o name]

\* the active log file; rotated files that are old, fresh, and exactly as old as the
\* threshold; a directory; a file of another name; names that match because '.' matches
\* any character and because the end is open
EntryInputs ==
    { Entry(file_name, "file", 50),
      Entry(file_name \o <<".", "1">>, "file", 50),
      Entry(file_name \o <<".", "2">>, "file", 95),
      Entry(file_name \o <<".", "3">>, "file", Now - move_if_older_than_secs),
      Entry(file_name \o <<".", "4">>, "dir", 50),
      Entry(<<"other", ".", "log">>, "file", 50),
      Entry(<<"application", "_", "log">>, "file", 50),
      Entry(file_name \o <<".", "bak">>, "file", 50) }

SrcInputs ==
    { [n \in {e.name : e \in S} |-> CHOOSE e \in S : e.name = n] :
        S \in {T \in SUBSET EntryInputs : Cardinality(T) <= MaxEntries} }

\* the worklog before the run: one record of an earlier run
EarlierWorklog == << <<"{\"src\": \"/var/log/kontext/application.log.0\", ...}", NL>> >>

\* os.path.isfile and the age test and the test for the active file
can_be_archived(src, name) ==
    /\ src[name].kind = "file"
    /\ Now - src[name].mtime > move_if_older_than_secs
    /\ name # file_name

\* hashlib.md5(f.read()).hexdigest()
get_hash(data) == <<"md5 of ">> \o data

\* datetime.fromtimestamp(mtime).strftime('%Y%m%d%H%M')
Suffix(mtime) == <<".", "minute of", mtime>>

\* os.path.join(dest_dir, os.path.join(dest_dir, '%s.%s' % (basename, suff)))
target_path(dest_dir, name, mtime) ==
    join(dest_dir, join(dest_dir, Path(FALSE, <<name \o Suffix(mtime)>>)))

\* the directory of a path
dirname(p) == Path(p.abs, SubSeq(p.segs, 1, Len(p.segs) - 1))

\* Archiver.archive: the record it returns; hashOk and moveOk say whether the read of the
\* file and shutil.move raise IOError
archive(e, dest_dir, hashOk, moveOk) ==
    LET target == target_path(dest_dir, e.name, e.mtime)
        failed == IF ~hashOk THEN <<"Permission denied">>
                  ELSE IF dirname(target) # dest_dir THEN <<"No such file or directory">>
                  ELSE IF ~moveOk THEN <<"No space left on device">>
                  ELSE <<>>
    IN  [ans |-> ("datetime" :> Now)
                 @@ (IF hashOk THEN "checksum" :> get_hash(e.data) ELSE << >>)
                 @@ (IF failed # <<>> THEN "error" :> failed ELSE << >>)
                 @@ ("src" :> join(SrcDir, Path(FALSE, <<e.name>>)))
                 @@ ("dst" :> target),
         moved |-> failed = <<>>,
         target |-> target]

\* json.dumps(item) + '\n'
dumps(log) == [i \in 1..Len(log) |-> <<log[i], NL>>]

InitRotPart ==
    /\ rDstDir \in DstDirs
    /\ rSrc \in SrcInputs
    /\ rSrc0 = rSrc
    /\ rDst = << >>
    /\ rTodo = {}
    /\ rLog = <<>>
    /\ rWorklog = EarlierWorklog
    /\ rPc = "start"
    /\ rErr = NoError

ParkedRot ==
    /\ rDstDir = Path(TRUE, <<"mnt", "archive">>)
    /\ rSrc = << >>
    /\ rSrc0 = << >>
    /\ rDst = << >>
    /\ rTodo = {}
    /\ rLog = <<>>
    /\ rWorklog = EarlierWorklog
    /\ rPc = "start"
    /\ rErr = NoError

ParkedUtil == ParkedLog /\ ParkedRot

rotFrame == <<mainVars, confVars, findVars, docVars, logVars>>

\* process_dir: os.listdir(src_dir)
ListDir ==
    /\ rPc = "start"
    /\ rTodo' = DOMAIN rSrc
    /\ rPc' = "loop"
    /\ UNCHANGED <<rDstDir, rSrc, rSrc0, rDst, rLog, rWorklog, rErr, rotFrame>>

\* one pass of the for loop, for the entry listdir yields next
ProcessEntry ==
    /\ rPc = "loop"
    /\ \E item \in rTodo :
          /\ rTodo' = rTodo \ {item}
          /\ IF is_log_file(item) /\ can_be_archived(rSrc, item)
             THEN \E hashOk, moveOk \in BOOLEAN :
                     LET r == archive(rSrc[item], rDstDir, hashOk, moveOk)
                     IN  /\ rLog' = Append(rLog, r.ans)
                         /\ IF r.moved
                            THEN /\ rSrc' = Remove(rSrc, {item})
                                 /\ rDst' = Put(rDst, r.target, rSrc[item].data)
                            ELSE UNCHANGED <<rSrc, rDst>>
             ELSE UNCHANGED <<rSrc, rDst, rLog>>
    /\ UNCHANGED <<rDstDir, rSrc0, rWorklog, rPc, rErr, rotFrame>>

\* update_worklog(log) after the loop: the worklog is opened for appending and gets a
\* line per record, or the open raises IOError, which nothing catches
UpdateWorklog ==
    /\ rPc = "loop"
    /\ rTodo = {}
    /\ \/ /\ rWorklog' = rWorklog \o dumps(rLog)
          /\ rPc' = "done"
          /\ UNCHANGED rErr
       \/ /\ rErr' = Raise("IOError", <<"Permission denied: ", "worklog">>)
          /\ rPc' = "failed"
          /\ UNCHANGED rWorklog
    /\ UNCHANGED <<rDstDir, rSrc, rSrc0, rDst, rTodo, rLog, rotFrame>>

----------------------------------------------------------------------------
(* The script: repeated invocations on one host *)

Junk == {"index.html", ".htaccess", ".DS_Store"}

DirOf(names) == [n \in names |-> <<>>]

ParkedConf == cwd = <<"home">> /\ cfgData = GoodDoc /\ cfgOut = NotRun

ParkedFind == fListing = <<>> /\ fPrefix = <<>> /\ fOut = [err |-> NotRun, ans |-> None]

FreshWork == [git |-> FALSE, node_modules |-> FALSE, files |-> {}, conf |-> << >>]

BuiltWork == [git |-> TRUE, node_modules |-> TRUE, files |-> Range(FILES),
              conf |-> ("config.xml" :> EarlierConfData)]

\* the archive a successful run_all leaves for a document, a message and a git log output
CompleteArchive(doc, message, out) ==
    [n \in Range(InstallItems) |->
        IF n = "conf" THEN Range(kontext_conf_files(doc))
        ELSE IF n = DEPLOY_MESSAGE_FILE THEN deployment_info(message, out)
        ELSE <<>>]

FirstDate == CHOOSE d \in Dates : d.second = 0

SecondDate == CHOOSE d \in Dates : d.second = 1

FirstMessage == [given |-> TRUE, text |-> <<"hotfix">>]

FirstLog == <<"1a2b3c4 Fix concordance view", NL>>

SecondLog == <<"9f8e7d6", " ", "Update locale", NL>>

FirstArchive == CompleteArchive(AliasDoc, FirstMessage, FirstLog)

SecondArchive == CompleteArchive(AliasDoc, NoMessage, SecondLog)

Host(app, archs, wd, wr) == [appDir |-> app, archives |-> archs, work |-> wd, written |-> wr]

\* the states earlier invocations left the host in: nothing deployed yet (the live
\* directory empty or holding other files); one forward deployment done; that archive
\* invalidated afterwards; a first forward deployment that failed at its first cp into
\* the archive; two forward deployments done
Hosts ==
    { Host(DirOf({}), << >>, FreshWork, << >>),
      Host(DirOf(Junk), << >>, FreshWork, << >>),
      Host(FirstArchive, strftime(FirstDate) :> FirstArchive, BuiltWork,
           strftime(FirstDate) :> Written(FirstMessage, FirstLog)),
      Host(FirstArchive,
           strftime(FirstDate) :> Put(FirstArchive, INVALIDATION_FILE, <<"hotfix", NL>>),
           BuiltWork, strftime(FirstDate) :> Written(FirstMessage, FirstLog)),
      Host(DirOf({}), strftime(FirstDate) :> ("conf" :> {}), BuiltWork, << >>),
      Host(SecondArchive,
           (strftime(FirstDate) :> FirstArchive) @@ (strftime(SecondDate) :> SecondArchive),
           BuiltWork,
           (strftime(FirstDate) :> Written(FirstMessage, FirstLog))
           @@ (strftime(SecondDate) :> Written(NoMessage, SecondLog))) }

\* the same for the document whose archive root is the entry 'arch' of the live
\* directory: nothing deployed yet, or one forward deployment done
NestedHosts ==
    { Host(DirOf({"arch"}), << >>, FreshWork, << >>),
      Host(FirstArchive @@ DirOf({"arch"}), strftime(FirstDate) :> FirstArchive, BuiltWork,
           strftime(FirstDate) :> Written(FirstMessage, FirstLog)) }

InitOn(hosts) ==
    /\ pc = "idle"
    /\ argAction = "list"
    /\ argId = NEW_ID
    /\ argMessage = NoMessage
    /\ argDate = NoDate
    /\ m = None
    /\ archPath = <<>>
    /\ idx = 1
    /\ err = NoError
    /\ exitStatus = 0
    /\ stdout = <<>>
    /\ runs = 0
    /\ \E h \in hosts :
          /\ appDir = h.appDir
          /\ archives = h.archives
          /\ work = h.work
          /\ written = h.written
          /\ \/ confDoc = AliasDoc /\ appConf = AllConf /\ h \in Hosts
             \/ /\ confDoc = AliasDoc /\ appConf = AllConf \ {"config.xml"}
                /\ h \in Hosts /\ h.work = FreshWork
             \/ confDoc = BadDoc /\ appConf = AllConf /\ h \in Hosts /\ h.work = FreshWork
             \/ confDoc = NestedDoc /\ appConf = AllConf /\ h \in NestedHosts
             \/ /\ confDoc = ConfigAliasDoc
                /\ appConf \in {AllConf, AllConf \ {"config.xml"}}
                /\ h \in Hosts /\ h.work = FreshWork /\ h.appDir = DirOf({})
    /\ step = "getuid"
    /\ appDir0 = appDir
    /\ archives0 = archives

InitMain == InitOn(Hosts)

Init == InitMain /\ ParkedConf /\ ParkedFind /\ ParkedDoc /\ ParkedUtil

Next ==
    \/ StartAsRoot
    \/ Start
    \/ ListArchive
    \/ InvalidateArchive
    \/ DeployFromArchive
    \/ GitClone
    \/ GitUpdate
    \/ UpdateWorkingConf
    \/ NpmInstall
    \/ GruntProduction
    \/ CreateArchive
    \/ CopyConfiguration
    \/ RecordDeploymentInfo
    \/ CopyAppToArchive
    \/ RemoveCurrentDeployment
    \/ DeployNewVersion
    \/ ShowDeploymentInfo

Spec == Init /\ [][Next]_vars

\* the script on the hosts of every document of the model that passes validation
InitAnyConf == InitOn(Hosts \cup NestedHosts) /\ ParkedConf /\ ParkedFind /\ ParkedDoc /\ ParkedUtil

SpecAnyConf == InitAnyConf /\ [][Next]_vars


\* the script has not been started
ParkedMain ==
    /\ pc = "idle"
    /\ argAction = "list"
    /\ argId = NEW_ID
    /\ argMessage = NoMessage
    /\ argDate = NoDate
    /\ confDoc = GoodDoc
    /\ m = None
    /\ archPath = <<>>
    /\ idx = 1
    /\ err = NoError
    /\ exitStatus = 0
    /\ stdout = <<>>
    /\ archives = << >>
    /\ work = FreshWork
    /\ appConf = AllConf
    /\ appDir = DirOf({})
    /\ runs = 0
    /\ written = << >>
    /\ step = "getuid"
    /\ appDir0 = appDir
    /\ archives0 = archives

InitConf == InitConfPart /\ ParkedMain /\ ParkedFind /\ ParkedDoc /\ ParkedUtil

NextConf == Construct

SpecConf == InitConf /\ [][NextConf]_vars

InitFind == InitFindPart /\ ParkedMain /\ ParkedConf /\ ParkedDoc /\ ParkedUtil

NextFind == Lookup

SpecFind == InitFind /\ [][NextFind]_vars

InitDoc == InitDocPart /\ ParkedMain /\ ParkedConf /\ ParkedFind /\ ParkedUtil

NextDoc ==
    \/ ConstructDoc
    \/ ReadConfFiles
    \/ ReadAccessor

SpecDoc == InitDoc /\ [][NextDoc]_vars

InitLog == InitLogPart /\ ParkedMain /\ ParkedConf /\ ParkedFind /\ ParkedDoc /\ ParkedRot

NextLog ==
    \/ ProcessQueryStart
    \/ ProcessItem
    \/ FinishQuery

SpecLog == InitLog /\ [][NextLog]_vars

InitRot == InitRotPart /\ ParkedMain /\ ParkedConf /\ ParkedFind /\ ParkedDoc /\ ParkedLog

NextRot ==
    \/ ListDir
    \/ ProcessEntry
    \/ UpdateWorklog

SpecRot == InitRot /\ [][NextRot]_vars


----------------------------------------------------------------------------
(* Properties of the forward deployment and of the rollback *)

ForwardDeploy == argAction = "deploy" /\ argId = NEW_ID

Rollback == argAction = "deploy" /\ argId # NEW_ID

PreClearSteps == {"update_from_repository", "update_working_conf", "build_project",
                  "create_archive", "copy_configuration", "record_deployment_info",
                  "copy_app_to_archive"}

\* archive id holds every configured config file, the provenance file and the build output
ArchiveAssembled(id) ==
    /\ id \in DOMAIN archives
    /\ "conf" \in DOMAIN archives[id]
    /\ Range(kontext_conf_files(confDoc)) \subseteq archives[id]["conf"]
    /\ DEPLOY_MESSAGE_FILE \in DOMAIN archives[id]
    /\ Range(FILES) \subseteq DOMAIN archives[id]

\* C1: in a forward deployment the clear step only runs on a fully assembled archive,
\* and while the deployment is in (or failed in) an earlier step the live directory
\* is what it was when the deployment started
C1_ClearOnlyAfterAssembly ==
    ForwardDeploy =>
        /\ pc = "remove_current_deployment" => ArchiveAssembled(archPath)
        /\ step \in PreClearSteps => appDir = appDir0

C1_Witness ==
    /\ ForwardDeploy
    /\ pc = "remove_current_deployment"
    /\ idx = 1
    /\ DOMAIN appDir # {}
    /\ ArchiveAssembled(archPath)

\* C2: a deploy action that resolved to an archive carrying the invalidation marker has
\* ended with InvalidatedArchiveException, the message of which contains the content of
\* the marker, and the live directory is what it was when the action started
C2_InvalidatedArchiveRefused ==
    (Rollback /\ m.some /\ INVALIDATION_FILE \in DOMAIN archives[m.val]) =>
        /\ pc = "exited"
        /\ err.type = "InvalidatedArchiveException"
        /\ Contains(err.msg, archives[m.val][INVALIDATION_FILE])
        /\ appDir = appDir0

C2_Witness ==
    /\ Rollback
    /\ pc = "exited"
    /\ m.some
    /\ INVALIDATION_FILE \in DOMAIN archives[m.val]
    /\ archives[m.val][INVALIDATION_FILE] = <<"hotfix", NL>>
    /\ err.type = "InvalidatedArchiveException"
    /\ DOMAIN appDir # {}

\* the entries of the listing that start with the prefix
Matching(listing, prefix) == {i \in 1..Len(listing) : StartsWith(listing[i], prefix)}

\* C3: find_matching_archive returns None for no matching entry, the entry for exactly
\* one and raises InputError for two or more; what it returns starts with the prefix
C3_FindMatchingArchive ==
    fOut.err # NotRun =>
        LET hits == Matching(fListing, fPrefix)
        IN  /\ hits = {} => fOut = [err |-> NoError, ans |-> None]
            /\ Cardinality(hits) = 1 =>
                  /\ fOut.err = NoError
                  /\ \A i \in hits : fOut.ans = Some(fListing[i])
            /\ Cardinality(hits) >= 2 => fOut.err.type = "InputError"
            /\ (fOut.err = NoError /\ fOut.ans.some) => StartsWith(fOut.ans.val, fPrefix)

C3_Witness ==
    /\ fOut.err.type = "InputError"
    /\ Cardinality(Matching(fListing, fPrefix)) = 2
    /\ Len(fListing) = 3

Canonical(p) == realpath(p, cwd).segs

\* C4, as claimed: Configuration raises ConfigError when one of the four directories is
\* a relative path, a nonexistent path or a direct child of the root, and raises nothing
\* when all four are absolute, existing, deeper directories
C4_PathValidation ==
    cfgOut # NotRun =>
        /\ (\E k \in DirKeys : \/ ~cfgData[k].abs
                               \/ ~isdir(cfgData[k], cwd)
                               \/ Len(Canonical(cfgData[k])) = 1)
              => cfgOut.type = "ConfigError"
        /\ (\A k \in DirKeys : /\ cfgData[k].abs
                               /\ isdir(cfgData[k], cwd)
                               /\ Len(Canonical(cfgData[k])) >= 2)
              => cfgOut = NoError

\* C5, as claimed: when remove_current_deployment has returned the live directory has
\* no entries
C5_LiveDirEmptyAfterRemove ==
    (pc = "deploy_new_version" /\ idx = 1) => DOMAIN appDir = {}

\* C6, as claimed: create_archive for a timestamp whose archive directory and conf/
\* subdirectory exist raises nothing, returns that path and leaves the archives alone
C6_CreateArchiveIdempotent ==
    [][(/\ pc = "create_archive"
        /\ strftime(argDate) \in DOMAIN archives
        /\ "conf" \in DOMAIN archives[strftime(argDate)])
       => (/\ err'.type = "none"
           /\ archPath' = strftime(argDate)
           /\ archives' = archives)]_vars

\* C7, as claimed: a deploy action whose archive identifier matches no archive ends in
\* InputError and leaves the live directory alone
C7_NoMatchIsInputError ==
    (/\ Rollback
     /\ pc = "exited"
     /\ step = "deploy_from_archive"
     /\ \A a \in DOMAIN archives : ~StartsWith(a, argId))
    => (err.type = "InputError" /\ appDir = appDir0)

\* C8, as claimed: an action that ended in an error printed it and exited non-zero, and
\* exit status zero only occurs without an error
C8_ErrorsExitNonZero ==
    pc = "exited" =>
        /\ err.type # "none" =>
              /\ exitStatus # 0
              /\ \E i \in 1..Len(stdout) : stdout[i] = ErrorPrint(err)
        /\ exitStatus = 0 => err.type = "none"

\* C9, as claimed: a forward deployment that starts from an empty live directory and in
\* which no external command fails ends with the live directory holding exactly FILES,
\* .deploy_info and conf, and with exactly one new archive holding the same entries
C9_ForwardDeployResult ==
    (/\ ForwardDeploy
     /\ pc = "exited"
     /\ step \in PreClearSteps \cup {"remove_current_deployment", "deploy_new_version"}
     /\ DOMAIN appDir0 = {}
     /\ err.type # "ShellCommandError")
    => /\ DOMAIN appDir = Range(FILES) \cup {DEPLOY_MESSAGE_FILE, "conf"}
       /\ DOMAIN archives \ DOMAIN archives0 = {archPath}
       /\ DOMAIN archives[archPath] = DOMAIN appDir

\* C10: after a successful rollback to an archive the provenance file of the live
\* directory, and what was printed, is what record_deployment_info wrote into the archive:
\* the (non-empty) message and a blank line, then the line git log printed
C10_RollbackProvenance ==
    (Rollback /\ pc = "exited" /\ step = "show_deployment_info" /\ err.type = "none") =>
        /\ archPath \in DOMAIN written
        /\ LET w == written[archPath]
               expected == (IF w.message.given /\ w.message.text # <<>>
                            THEN w.message.text \o <<NL, NL>> ELSE <<>>) \o w.log
           IN  /\ w.content = expected
               /\ appDir[DEPLOY_MESSAGE_FILE] = expected
               /\ Len(stdout) >= 2
               /\ stdout[Len(stdout) - 1] = <<NL, "Deployment information:", NL>> \o expected

C10_Witness ==
    /\ Rollback
    /\ pc = "exited"
    /\ step = "show_deployment_info"
    /\ err.type = "none"
    /\ archPath \in DOMAIN written
    /\ written[archPath].message.text = <<"hotfix">>
    /\ DEPLOY_MESSAGE_FILE \in DOMAIN appDir


----------------------------------------------------------------------------
(* Properties of the configuration object *)

\* the standard file list with every aliased name replaced by its alias
StandardAliased(data) ==
    [i \in 1..Len(KONTEXT_CONF_FILES) |->
        IF KONTEXT_CONF_FILES[i] \in DOMAIN kc_aliases(data)
        THEN kc_aliases(data)[KONTEXT_CONF_FILES[i]] ELSE KONTEXT_CONF_FILES[i]]

\* C11, as claimed: kontext_conf_files is the standard list with the aliases substituted,
\* followed by the extra names exactly as configured and in their order, nothing removed;
\* its length is 7 plus the number of extras
C11_ConfFilesList ==
    dFiles # NotRead =>
        /\ dFiles = StandardAliased(dData) \o kc_custom(dData)
        /\ Len(dFiles) = 7 + Len(kc_custom(dData))

\* C12, as claimed: constructing a Configuration from a document that lacks one of the
\* seven required keys ends in KeyError (a git URL that does not answer aside), and no
\* property read of a constructed configuration raises KeyError
C12_MissingKeyFailsAtConstruction ==
    /\ (dOut # NotRun /\ dOut.type # "ConfigError" /\ RequiredKeys \ DOMAIN dData # {})
          => dOut.type = "KeyError"
    /\ dAcc.out.type # "KeyError"

----------------------------------------------------------------------------
(* Properties of the invocations on a host *)

\* C13: every step that ends in ConfigError is the start of an invocation that ends there,
\* in the construction of the Configuration: no step of an action has run and the live
\* directory, the archives, the working directory and the application-config directory
\* are what they were; and an invocation whose appDir is not an existing directory ends so
C13_ConfigErrorBeforeAnyEffect ==
    [][/\ err'.type = "ConfigError" =>
            /\ pc \in {"idle", "exited"}
            /\ pc' = "exited"
            /\ step' = "Configuration"
            /\ UNCHANGED <<appDir, archives, work, appConf, written>>
       /\ (runs' # runs /\ step' # "getuid" /\ ~isdir(confDoc[APP_DIR], MainCwd)) =>
            err'.type = "ConfigError"]_vars

C13_Witness ==
    /\ pc = "exited"
    /\ err.type = "ConfigError"
    /\ step = "Configuration"
    /\ ~isdir(confDoc[APP_DIR], MainCwd)
    /\ argAction = "invalidate"
    /\ DOMAIN appDir # {}

\* C14, as claimed: under every document that passes validation no step of any action
\* removes an archive: the set of archive IDs under archiveDir only grows
C14_ArchivesOnlyGrow ==
    [][DOMAIN archives \subseteq DOMAIN archives']_vars

Invalidated(archs, a) == a \in DOMAIN archs /\ INVALIDATION_FILE \in DOMAIN archs[a]

InstallSteps == {"remove_current_deployment", "deploy_new_version", "show_deployment_info"}

HasInfo(archs, a) == a \in DOMAIN archs /\ DEPLOY_MESSAGE_FILE \in DOMAIN archs[a]

Candidates == {a \in DOMAIN archives0 : StartsWith(a, argId)}

\* C17: a deploy or invalidate action whose identifier is a prefix of two or more
\* archives ends in InputError; the live directory and every archive, markers included,
\* are what they were when the action started
C17_AmbiguousIdFailsClosed ==
    (/\ Rollback \/ argAction = "invalidate"
     /\ pc = "exited"
     /\ step \in {"deploy_from_archive", "invalidate_archive"}
     /\ Cardinality(Candidates) >= 2)
    => /\ err.type = "InputError"
       /\ appDir = appDir0
       /\ archives = archives0

C17_Witness ==
    /\ argAction = "invalidate"
    /\ argMessage.given
    /\ pc = "exited"
    /\ step = "invalidate_archive"
    /\ Cardinality(Candidates) = 2
    /\ err.type = "InputError"

\* the steps of a forward deployment in the order of the claim
StepOrder == <<"update_from_repository", "update_working_conf", "build_project",
               "create_archive", "copy_configuration", "record_deployment_info",
               "copy_app_to_archive", "remove_current_deployment", "deploy_new_version">>

Position(s) == CHOOSE i \in 1..Len(StepOrder) : StepOrder[i] = s

\* C18: a forward deployment starts with the first step; from a step it goes to the next
\* command of that step, or to the first command of the following step, or it ends: after
\* the last step without an error, or in the failing command with the working directory,
\* the archives and the live directory as the commands before left them; nothing runs
\* after the end
C18_ForwardDeployStepOrder ==
    [][ForwardDeploy' =>
        /\ (pc \in {"idle", "exited"} /\ runs' # runs) => pc' \in {"exited", StepOrder[1]}
        /\ (pc = "exited" /\ runs' = runs) => UNCHANGED <<pc, appDir, archives, work>>
        /\ pc \in Range(StepOrder) =>
              \/ /\ pc' = "exited"
                 /\ err'.type # "none"
                 /\ UNCHANGED <<appDir, archives, work>>
              \/ /\ pc' = "exited"
                 /\ err'.type = "none"
                 /\ Position(pc) = Len(StepOrder)
              \/ /\ pc' = pc
                 /\ idx' = idx + 1
                 /\ err'.type = "none"
              \/ /\ Position(pc) < Len(StepOrder)
                 /\ pc' = StepOrder[Position(pc) + 1]
                 /\ idx' = 1
                 /\ err'.type = "none"
              \/ UNCHANGED vars]_vars

C18_Witness ==
    /\ ForwardDeploy
    /\ pc = "exited"
    /\ step = "copy_app_to_archive"
    /\ err.type = "ShellCommandError"
    /\ archPath \notin DOMAIN archives0
    /\ HasInfo(archives, archPath)
    /\ "lib" \in DOMAIN archives[archPath]
    /\ "worker.py" \notin DOMAIN archives[archPath]
    /\ appDir = appDir0
    /\ DOMAIN appDir # {}

\* C19, as claimed: when an invocation has ended, every archive it added to the archive
\* root, which list shows and a rollback resolves, holds the complete payload
C19_NoPartialArchive ==
    pc = "exited" =>
        \A a \in DOMAIN archives : a \notin DOMAIN archives0 => ArchiveAssembled(a)

DigitValue(c) ==
    CASE c = "0" -> 0 [] c = "1" -> 1 [] c = "2" -> 2 [] c = "3" -> 3 [] c = "4" -> 4
      [] c = "5" -> 5 [] c = "6" -> 6 [] c = "7" -> 7 [] c = "8" -> 8 [] c = "9" -> 9
      [] OTHER -> -1

RECURSIVE Number(_)
Number(cs) ==
    IF cs = <<>> THEN 0
    ELSE IF DigitValue(cs[Len(cs)]) < 0 \/ Number(SubSeq(cs, 1, Len(cs) - 1)) < 0 THEN -1
    ELSE 10 * Number(SubSeq(cs, 1, Len(cs) - 1)) + DigitValue(cs[Len(cs)])

\* id reads YYYY-MM-DD-HH-MM-SS for the instant d
IsTimestampOf(id, d) ==
    /\ Len(id) = 19
    /\ \A i \in {5, 8, 11, 14, 17} : id[i] = "-"
    /\ Number(SubSeq(id, 1, 4)) = d.year
    /\ Number(SubSeq(id, 6, 7)) = d.month
    /\ Number(SubSeq(id, 9, 10)) = d.day
    /\ Number(SubSeq(id, 12, 13)) = d.hour
    /\ Number(SubSeq(id, 15, 16)) = d.minute
    /\ Number(SubSeq(id, 18, 19)) = d.second

----------------------------------------------------------------------------
\* the ConfigError of the forbidden-path branch for key k
Forbidden(k) == Raise("ConfigError", <<k, " cannot be set to forbidden value">>)

\* the keys Configuration.__init__ looks at before key k
KeysBefore(k) == {ConfigKeys[i] : i \in {j \in 1..Len(ConfigKeys) :
                                           \E n \in (j + 1)..Len(ConfigKeys) : ConfigKeys[n] = k}}

\* C21: a configured directory is refused as forbidden exactly when its canonical form is
\* the root or a direct child of the root, whichever key holds it: the test is true of
\* exactly those values, the construction fails with the forbidden-value ConfigError of
\* the first key that holds such a value when the keys before it pass, it raises
\* ConfigError whenever some key holds one, and four existing directories two or more
\* levels below the root are accepted
C21_ForbiddenIsShallowAndExact ==
    cfgOut # NotRun =>
        /\ \A k \in DirKeys :
              /\ is_forbidden_dir(cfgData[k], cwd) <=> Len(Canonical(cfgData[k])) <= 1
              /\ cfgOut = Forbidden(k) =>
                    /\ Len(Canonical(cfgData[k])) <= 1
                    /\ \A b \in KeysBefore(k) : Len(Canonical(cfgData[b])) >= 2
              /\ ( /\ Len(Canonical(cfgData[k])) <= 1
                   /\ \A b \in KeysBefore(k) : /\ Len(Canonical(cfgData[b])) >= 2
                                               /\ isdir(cfgData[b], cwd) )
                    => cfgOut = Forbidden(k)
        /\ (\E k \in DirKeys : Len(Canonical(cfgData[k])) <= 1)
              => cfgOut.type = "ConfigError"
        /\ (\A k \in DirKeys : isdir(cfgData[k], cwd) /\ Len(Canonical(cfgData[k])) >= 2)
              => cfgOut = NoError

\* the last key looked at holds a path spelled two levels deep whose canonical form is a
\* direct child of the root, and the construction refused it as forbidden
C21_Witness ==
    /\ cfgOut = Forbidden(APP_DIR)
    /\ Len(cfgData[APP_DIR].segs) = 2
    /\ Len(Canonical(cfgData[APP_DIR])) = 1

----------------------------------------------------------------------------
\* C22: when update_working_conf returns, conf/config.xml of the working directory holds
\* the content of the file named config.xml of the application-config directory (the
\* alias table plays no part) whatever copy was there before, and nothing else of the
\* working directory changed; when the application-config directory has no config.xml
\* the step ends in ShellCommandError and the working directory is as it was
C22_UpdateWorkingConf ==
    [][pc = "update_working_conf" =>
          /\ pc' = "build_project" =>
                /\ "config.xml" \in appConf
                /\ "config.xml" \in DOMAIN work'.conf
                /\ work'.conf["config.xml"] = ConfData("config.xml")
                /\ work' = [work EXCEPT !.conf = work'.conf]
                /\ \A n \in DOMAIN work.conf \ {"config.xml"} :
                      n \in DOMAIN work'.conf /\ work'.conf[n] = work.conf[n]
          /\ pc' # "build_project" =>
                /\ err'.type = "ShellCommandError"
                /\ work' = work
          /\ "config.xml" \notin appConf => err'.type = "ShellCommandError"
      ]_vars

\* update_working_conf has returned on a host whose working directory held the config.xml
\* of an earlier deployment, with other content
C22_Witness ==
    /\ pc = "build_project"
    /\ idx = 1
    /\ work.node_modules
    /\ EarlierConfData # ConfData("config.xml")
    /\ work.conf["config.xml"] = ConfData("config.xml")

----------------------------------------------------------------------------
\* the marker file of archive a: whether it exists, and what it holds
Marker(archs, a) ==
    IF INVALIDATION_FILE \in DOMAIN archs[a] THEN Some(archs[a][INVALIDATION_FILE]) ELSE None

\* C23, as claimed: an invalidate action that ends in an error leaves every archive with
\* the marker file it had, or without one if it had none
C23_FailedInvalidateChangesNoMarker ==
    [][(pc = "invalidate_archive" /\ err'.type # "none") =>
          /\ DOMAIN archives' = DOMAIN archives
          /\ \A a \in DOMAIN archives : Marker(archives', a) = Marker(archives, a)
      ]_vars

----------------------------------------------------------------------------
\* the actions handed to elasticsearch.helpers.bulk so far, in the order they were handed
RECURSIVE Submitted(_)
Submitted(calls) ==
    IF calls = <<>> THEN <<>> ELSE calls[1].items \o Submitted(Tail(calls))

\* C24, as claimed: process_query applies the operation its query specifies: a delete
\* query submits delete actions against the source index only and never an index action,
\* a copy query submits index actions to the target index only, the query fails only
\* when a bulk call fails, and when it returns every scanned document was submitted
C24_OperationApplied ==
    lQueryId \in DOMAIN Queries =>
        LET op == Queries[lQueryId].op
            sent == Submitted(lCalls)
        IN  /\ op["name"] = "delete" =>
                  \A i \in 1..Len(sent) :
                      sent[i]["_op_type"] = "delete" /\ sent[i]["_index"] = Index
            /\ op["name"] = "copy" =>
                  \A i \in 1..Len(sent) :
                      sent[i]["_op_type"] = "index" /\ sent[i]["_index"] = TargetIndex
            /\ lPc = "failed" => lErr.type = "BulkIndexError"
            /\ lPc = "done" =>
                  \A d \in 1..Len(lScan) : \E i \in 1..Len(sent) : sent[i]["_id"] = lScan[d]._id

\* C25: the bulk calls made so far carry, in scan order and once each, the documents the
\* loop has passed; none is empty or longer than bulk_size, every call but the last
\* carries exactly bulk_size items, so does the last while the loop is running, and when
\* process_query returns the calls carry the whole scan
C25_BatchesPartitionTheScan ==
    LET sent == Submitted(lCalls)
    IN  /\ \A c \in 1..Len(lCalls) :
              /\ Len(lCalls[c].items) >= 1
              /\ Len(lCalls[c].items) <= lBulkSize
              /\ (c < Len(lCalls) \/ lPc = "loop") => Len(lCalls[c].items) = lBulkSize
        /\ Len(sent) <= Len(lScan)
        /\ \A i \in 1..Len(sent) : sent[i]["_id"] = lScan[i]._id
        /\ lPc = "loop" => Len(sent) + Len(lBulk) = lPos - 1
        /\ lPc = "done" => Len(sent) = Len(lScan)

\* process_query returned after a full call and a call with the rest
C25_Witness ==
    /\ lPc = "done"
    /\ Len(lScan) = 3
    /\ lBulkSize = 2
    /\ Len(lCalls) = 2
    /\ Len(lCalls[2].items) = 1

----------------------------------------------------------------------------
\* the entries process_dir has to archive: names that match the pattern, regular files
\* older than the threshold, not the active log file
Eligible ==
    {n \in DOMAIN rSrc0 : /\ is_log_file(n)
                          /\ rSrc0[n].kind = "file"
                          /\ Now - rSrc0[n].mtime > move_if_older_than_secs
                          /\ n # file_name}

\* the records the worklog gained
Gained == [i \in 1..(Len(rWorklog) - Len(EarlierWorklog)) |->
              rWorklog[Len(EarlierWorklog) + i][1]]

RecordsOf(n) == {i \in 1..Len(Gained) : Gained[i]["src"] = join(SrcDir, Path(FALSE, <<n>>))}

\* C26, as claimed: when process_dir has ended, the entries gone from srcDir are entries
\* it had to archive and each has a record in the worklog; the worklog kept what it held
\* and gained exactly one record for each entry process_dir had to archive, with
\* timestamp, checksum, source and destination, and with the error exactly when the file
\* is still in srcDir
C26_ArchivedExactlyWithRecords ==
    rPc \in {"done", "failed"} =>
        /\ SubSeq(rWorklog, 1, Len(EarlierWorklog)) = EarlierWorklog
        /\ \A n \in DOMAIN rSrc0 \ DOMAIN rSrc : n \in Eligible /\ RecordsOf(n) # {}
        /\ DOMAIN rSrc \subseteq DOMAIN rSrc0
        /\ Len(Gained) = Cardinality(Eligible)
        /\ \A n \in Eligible :
              /\ Cardinality(RecordsOf(n)) = 1
              /\ \A i \in RecordsOf(n) :
                    /\ {"datetime", "checksum", "src", "dst"} \subseteq DOMAIN Gained[i]
                    /\ Gained[i]["checksum"] = get_hash(rSrc0[n].data)
                    /\ "error" \in DOMAIN Gained[i] <=> n \in DOMAIN rSrc
                    /\ n \notin DOMAIN rSrc =>
                          /\ Gained[i]["dst"] \in DOMAIN rDst
                          /\ rDst[Gained[i]["dst"]] = rSrc0[n].data

====
